---- MODULE Spec2Model ----
(***************************************************************************)
(* Model of the rendering composition layer of three-d:                    *)
(*   - Glue<G, M> and the reference-forwarding impls of Object, Geometry,   *)
(*     Shadable and Shadable2D          (src/src/renderer/object.rs)        *)
(*   - dust::model::Model (create / add_custom_attribute / draw) against    *)
(*     the global OpenGL bind state     (src/src/dust/model.rs)             *)
(*   - the frame loop of the dust binary (src/src/main.rs)                  *)
(*   - the deferred pipeline orchestrator, which drives                     *)
(*     Shadable::render_deferred (object.rs) and whose own code is not      *)
(*     part of the sources at hand; it is modelled from the specification.  *)
(***************************************************************************)
EXTENDS Integers, Sequences, FiniteSets, TLC

VARIABLES
    \* ---- Glue and reference forwarding (object.rs)
    glue,          \* the Glue value: [geometry, material]
    transparent,   \* state of Glue's own material: what its is_transparent() answers
    pc,            \* "idle" | "dispatch" | "done": position of the current call
    cur,           \* the current call: [op, mat, arg]
    orig,          \* receiver the caller invoked the operation on
    recv,          \* receiver the call has reached so far
    steps,         \* forwarding steps taken by the current call
    geomCalls,     \* calls the current call made on the underlying geometry
    result,        \* value the current call returned
    lastDirect,    \* the last call made directly on a value (no reference)
    lastTransparent, \* value returned by the previous is_transparent call
    \* ---- dust::model::Model and the global OpenGL bind state (model.rs)
    models,        \* the Models created so far: [id, material]
    nextVao,       \* the name GenVertexArrays hands out next
    boundVAO,      \* the vertex array currently bound (0: none)
    boundProgram,  \* the program currently in use
    vaoAttrs,      \* vertex array -> names of the attributes attached to it
    glLog,         \* the GL calls of the last operation, in order
    lastOp,        \* the last Model operation that returned
    \* ---- frame loop (main.rs)
    loopPc,        \* "poll" | "draw" | "swap" | "exited" | "panicked"
    frame,         \* frames presented so far
    polled,        \* events handled in the current iteration
    lastEvent,     \* the event handled last
    exitCause,     \* why the process ended
    \* ---- deferred pipeline orchestrator
    dObjects,      \* the caller-supplied collection: [glue, synth]
    dPhase,        \* "idle" | "geometry" | "lighting"
    dNext,         \* index of the next Object of the geometry pass
    dPending,      \* Object whose render_deferred call has not returned (0: none)
    dCalled,       \* Objects render_deferred was invoked on
    dErrors,       \* errors reported to the caller: <<index, error>>
    gbuffer        \* Objects written to the G-buffer

glueVars == <<glue, transparent, pc, cur, orig, recv, steps, geomCalls, result,
              lastDirect, lastTransparent>>

modelVars == <<models, nextVao, boundVAO, boundProgram, vaoAttrs, glLog, lastOp>>
loopVars == <<loopPc, frame, polled, lastEvent, exitCause>>
deferredVars == <<dObjects, dPhase, dNext, dPending, dCalled, dErrors, gbuffer>>

vars == <<glueVars, modelVars, loopVars, deferredVars>>

-----------------------------------------------------------------------------
(* Bounds *)

MaxDepth == 2        \* references stacked on top of a value
MaxModels == 2       \* Models created
MaxFrames == 3       \* iterations of the frame loop
MaxEvents == 2       \* events polled in one iteration
MaxObjects == 2      \* Objects handed to the deferred pipeline

-----------------------------------------------------------------------------
(* Values *)

None == "none"

Geometries == {"triangle", "quad", "uvquad"}
Materials == {"solid", "textured"}
Args == {"a1", "a2"}    \* (camera, lights) or (camera, viewport) bundles

\* Returned values: ThreeDResult<()>, bool, &AxisAlignedBoundingBox
NoValue == [none |-> TRUE]
Bool(b) == [bool |-> b]
Ok == [ok |-> TRUE, err |-> None]
Err(e) == [ok |-> FALSE, err |-> e]

\* vertex attributes a geometry can supply / a material asks for
Supplies(g) ==
    CASE g = "triangle" -> {"position", "color"}
      [] g = "quad"     -> {"position"}
      [] OTHER          -> {"position", "uv"}

Requires(m) ==
    CASE m = "solid" -> {"position"}
      [] OTHER       -> {"position", "uv"}

\* What a concrete geometry answers to render_forward / render_deferred.
GeometryResult(call) ==
    IF Requires(call.mat) \subseteq Supplies(call.geometry)
    THEN Ok ELSE Err("AttributeMismatch")

Geometry_aabb(g) == [aabb |-> g]

NoArgs == [op |-> None, mat |-> None, arg |-> None]
NoCall == [base |-> None, call |-> NoArgs, calls |-> <<>>, value |-> NoValue]

GeomCall(op, g, mat, arg) == [op |-> op, geometry |-> g, mat |-> mat, arg |-> arg]

-----------------------------------------------------------------------------
(* Glue<G, M>: object.rs 53-129 *)

Glue_render_DefaultMaterial(g, arg) ==
    LET call == GeomCall("render_forward", g.geometry, "solid", arg)
    IN [calls |-> <<call>>, value |-> GeometryResult(call)]

\* impl Object for Glue: render
Glue_render(g, arg) ==
    LET call == GeomCall("render_forward", g.geometry, g.material, arg)
    IN [calls |-> <<call>>, value |-> GeometryResult(call)]

Glue_is_transparent_Negated(g) ==
    [calls |-> <<>>, value |-> Bool(~transparent)]

\* impl Object for Glue: is_transparent
Glue_is_transparent(g) ==
    [calls |-> <<>>, value |-> Bool(transparent)]

Glue_render_forward_OwnMaterial(g, material, arg) ==
    LET call == GeomCall("render_forward", g.geometry, g.material, arg)
    IN [calls |-> <<call>>, value |-> GeometryResult(call)]

\* impl Shadable for Glue: render_forward
Glue_render_forward(g, material, arg) ==
    LET call == GeomCall("render_forward", g.geometry, material, arg)
    IN [calls |-> <<call>>, value |-> GeometryResult(call)]

Glue_render_deferred_OwnMaterial(g, material, arg) ==
    LET call == GeomCall("render_deferred", g.geometry, g.material, arg)
    IN [calls |-> <<call>>, value |-> GeometryResult(call)]

\* impl Shadable for Glue: render_deferred
Glue_render_deferred(g, material, arg) ==
    LET call == GeomCall("render_deferred", g.geometry, material, arg)
    IN [calls |-> <<call>>, value |-> GeometryResult(call)]

\* impl Geometry for Glue: aabb
Glue_aabb(g) ==
    [calls |-> <<>>, value |-> Geometry_aabb(g.geometry)]

-----------------------------------------------------------------------------
(* Receivers: a value ("Glue", a bare geometry "Geom", a 2D shape           *)
(* "Shape2D") behind zero or more references, outermost first.              *)

Bases == {"Glue", "Geom", "Shape2D"}
Wrappers == {"RefGlue", "DynObject", "DynGeometry", "DynShadable", "DynShadable2D"}

ObjectOps == {"render", "is_transparent"}
GeometryOps == {"aabb"}
ShadableOps == {"render_forward", "render_deferred"}
Shadable2DOps == {"render_forward_2d"}

\* The operations implemented for the type at the head of a receiver,
\* {} when the receiver is not a type of the program.
RECURSIVE OpsOf(_)
OpsOf(r) ==
    IF Len(r) = 1 THEN
        CASE r[1] = "Glue"    -> ObjectOps \cup GeometryOps \cup ShadableOps
          [] r[1] = "Geom"    -> GeometryOps \cup ShadableOps
          [] r[1] = "Shape2D" -> Shadable2DOps
          [] OTHER            -> {}
    ELSE
        LET inner == OpsOf(Tail(r)) IN
        CASE r[1] = "RefGlue" ->
                IF Tail(r) = <<"Glue">>
                THEN ObjectOps \cup GeometryOps \cup ShadableOps ELSE {}
          [] r[1] = "DynObject" ->
                IF ObjectOps \subseteq inner
                THEN ObjectOps \cup GeometryOps \cup ShadableOps ELSE {}
          [] r[1] = "DynGeometry" ->
                IF GeometryOps \subseteq inner
                THEN GeometryOps \cup ShadableOps ELSE {}
          [] r[1] = "DynShadable" ->
                IF ShadableOps \subseteq inner THEN ShadableOps ELSE {}
          [] r[1] = "DynShadable2D" ->
                IF Shadable2DOps \subseteq inner THEN Shadable2DOps ELSE {}
          [] OTHER -> {}

RECURSIVE SeqsUpTo(_, _)
SeqsUpTo(S, n) ==
    IF n = 0 THEN {<<>>}
    ELSE LET shorter == SeqsUpTo(S, n - 1)
         IN shorter \cup {<<w>> \o s : w \in S, s \in {t \in shorter : Len(t) = n - 1}}

Receivers ==
    {r \in {ws \o <<b>> : ws \in SeqsUpTo(Wrappers, MaxDepth), b \in Bases} :
        OpsOf(r) # {}}

\* the value behind all the references of a receiver
BaseOf(r) == r[Len(r)]

TakesMaterial(op) == op \in ShadableOps \cup Shadable2DOps
TakesArg(op) == op \in {"render"} \cup ShadableOps \cup Shadable2DOps

Deref_ReEnter(r) == r

\* (*self): the receiver one reference further in
Deref(r) == Tail(r)

-----------------------------------------------------------------------------
(* Calls *)

\* A caller invokes op on receiver r.
Invoke ==
    /\ pc = "idle"
    /\ \E r \in Receivers :
       \E op \in OpsOf(r) :
       \E m \in (IF TakesMaterial(op) THEN Materials ELSE {None}) :
       \E a \in (IF TakesArg(op) THEN Args ELSE {None}) :
          /\ cur' = [op |-> op, mat |-> m, arg |-> a]
          /\ orig' = r
          /\ recv' = r
    /\ pc' = "dispatch"
    /\ steps' = 0
    /\ geomCalls' = <<>>
    /\ result' = NoValue
    /\ UNCHANGED <<glue, transparent, lastDirect, lastTransparent>>
    /\ UNCHANGED <<modelVars, loopVars, deferredVars>>

\* The call stands at the impl of one of `ops` for the reference type w.
AtReference(w, ops) ==
    /\ pc = "dispatch"
    /\ Len(recv) > 1
    /\ Head(recv) = w
    /\ cur.op \in ops

\* The body of every forwarding impl: `(*self).op(args)`, arguments unchanged.
ForwardCall ==
    /\ recv' = Deref(recv)
    /\ steps' = steps + 1
    /\ UNCHANGED <<glue, transparent, pc, cur, orig, geomCalls, result,
                   lastDirect, lastTransparent>>
    /\ UNCHANGED <<modelVars, loopVars, deferredVars>>

RefGlue_Object ==
    /\ AtReference("RefGlue", ObjectOps)
    /\ ForwardCall

RefGlue_Shadable ==
    /\ AtReference("RefGlue", ShadableOps)
    /\ ForwardCall

RefGlue_Geometry ==
    /\ AtReference("RefGlue", GeometryOps)
    /\ ForwardCall

DynObject_Object ==
    /\ AtReference("DynObject", ObjectOps)
    /\ ForwardCall

DynObject_Shadable ==
    /\ AtReference("DynObject", ShadableOps)
    /\ ForwardCall

DynObject_Geometry ==
    /\ AtReference("DynObject", GeometryOps)
    /\ ForwardCall

DynGeometry_Geometry ==
    /\ AtReference("DynGeometry", GeometryOps)
    /\ ForwardCall

DynGeometry_Shadable ==
    /\ AtReference("DynGeometry", ShadableOps)
    /\ ForwardCall

DynShadable_Shadable ==
    /\ AtReference("DynShadable", ShadableOps)
    /\ ForwardCall

DynShadable2D_Shadable2D ==
    /\ AtReference("DynShadable2D", Shadable2DOps)
    /\ ForwardCall

\* The call reaches an implementation on a value and returns `out`.
Finish(out) ==
    /\ geomCalls' = geomCalls \o out.calls
    /\ result' = out.value
    /\ pc' = "done"
    /\ lastDirect' =
          IF Len(orig) = 1
          THEN [base |-> orig[1], call |-> cur,
                calls |-> geomCalls \o out.calls, value |-> out.value]
          ELSE lastDirect
    /\ UNCHANGED <<glue, transparent, cur, orig, recv, steps, lastTransparent>>
    /\ UNCHANGED <<modelVars, loopVars, deferredVars>>

AtBase(b, op) ==
    /\ pc = "dispatch"
    /\ recv = <<b>>
    /\ cur.op = op

GlueRender ==
    /\ AtBase("Glue", "render")
    /\ Finish(Glue_render(glue, cur.arg))

GlueIsTransparent ==
    /\ AtBase("Glue", "is_transparent")
    /\ Finish(Glue_is_transparent(glue))

GlueRenderForward ==
    /\ AtBase("Glue", "render_forward")
    /\ Finish(Glue_render_forward(glue, cur.mat, cur.arg))

GlueRenderDeferred ==
    /\ AtBase("Glue", "render_deferred")
    /\ Finish(Glue_render_deferred(glue, cur.mat, cur.arg))

GlueAabb ==
    /\ AtBase("Glue", "aabb")
    /\ Finish(Glue_aabb(glue))

\* A concrete geometry behind &dyn Geometry / &dyn Shadable (the G of Glue).
GeometryImpl ==
    /\ pc = "dispatch"
    /\ recv = <<"Geom">>
    /\ LET call == GeomCall(cur.op, glue.geometry, cur.mat, cur.arg)
       IN Finish([calls |-> <<call>>,
                  value |-> IF cur.op = "aabb" THEN Geometry_aabb(glue.geometry)
                            ELSE GeometryResult(call)])

\* A concrete 2D shape behind &dyn Shadable2D.
Shape2DImpl ==
    /\ pc = "dispatch"
    /\ recv = <<"Shape2D">>
    /\ LET call == GeomCall(cur.op, "shape2d", cur.mat, cur.arg)
       IN Finish([calls |-> <<call>>,
                  value |-> IF cur.mat = "solid" THEN Ok
                            ELSE Err("AttributeMismatch")])

\* The caller takes the returned value.
Return ==
    /\ pc = "done"
    /\ pc' = "idle"
    /\ lastTransparent' =
          IF cur.op = "is_transparent" /\ BaseOf(orig) = "Glue"
          THEN result ELSE lastTransparent
    /\ cur' = NoArgs
    /\ orig' = <<>>
    /\ recv' = <<>>
    /\ steps' = 0
    /\ geomCalls' = <<>>
    /\ result' = NoValue
    /\ UNCHANGED <<glue, transparent, lastDirect>>
    /\ UNCHANGED <<modelVars, loopVars, deferredVars>>

GlueNext ==
    \/ Invoke
    \/ RefGlue_Object
    \/ RefGlue_Shadable
    \/ RefGlue_Geometry
    \/ DynObject_Object
    \/ DynObject_Shadable
    \/ DynObject_Geometry
    \/ DynGeometry_Geometry
    \/ DynGeometry_Shadable
    \/ DynShadable_Shadable
    \/ DynShadable2D_Shadable2D
    \/ GlueRender
    \/ GlueIsTransparent
    \/ GlueRenderForward
    \/ GlueRenderDeferred
    \/ GlueAabb
    \/ GeometryImpl
    \/ Shape2DImpl
    \/ Return

-----------------------------------------------------------------------------
(* dust::model::Model over the global OpenGL bind state: model.rs *)

DustMaterials == {"m1", "m2"}
CustomAttributes == {"Color", "Normal"}

DrawFirst == 0       \* starting index in the enabled arrays
DrawCount == 3       \* number of indices to be rendered

\* material.program(): the program a material owns
NoProgram == [program |-> None]
ProgramOf(m) == [program |-> m]

\* The GL calls the code issues
BindVertexArray(id) == [call |-> "BindVertexArray", id |-> id]
DrawArrays(mode, first, count) ==
    [call |-> "DrawArrays", mode |-> mode, first |-> first, count |-> count]
\* material.apply(): puts the material's program in use
Material_apply(m) == [call |-> "UseProgram", program |-> ProgramOf(m)]
\* program.add_vertex_attribute(name, data): it is given no vertex array, the
\* attribute goes to the vertex array bound when it runs
Program_add_vertex_attribute(prog, name) ==
    [call |-> "add_vertex_attribute", program |-> prog, name |-> name]

\* The effect of one GL call on the bind state st = [vao, program, attrs]
GL_Apply(st, c) ==
    CASE c.call = "BindVertexArray" -> [st EXCEPT !.vao = c.id]
      [] c.call = "UseProgram" -> [st EXCEPT !.program = c.program]
      [] c.call = "add_vertex_attribute" ->
            IF st.vao = 0 THEN st
            ELSE [st EXCEPT !.attrs[st.vao] = @ \cup {c.name}]
      [] OTHER -> st

RECURSIVE GL_Run(_, _)
GL_Run(st, cs) ==
    IF cs = <<>> THEN st ELSE GL_Run(GL_Apply(st, Head(cs)), Tail(cs))

\* Model::create, after GenVertexArrays has put a fresh name in vao
Model_create(vao, material) ==
    << BindVertexArray(vao),
       Program_add_vertex_attribute(ProgramOf(material), "Position") >>

\* Model::add_custom_attribute
Model_add_custom_attribute(m, name) ==
    << Program_add_vertex_attribute(ProgramOf(m.material), name) >>

Model_draw_DrawBeforeBind(m) ==
    << Material_apply(m.material),
       DrawArrays("TRIANGLES", DrawFirst, DrawCount),
       BindVertexArray(m.id) >>

Model_draw_RestoresBinding(m) ==
    << Material_apply(m.material),
       BindVertexArray(m.id),
       DrawArrays("TRIANGLES", DrawFirst, DrawCount),
       BindVertexArray(boundVAO) >>

\* Model::draw
Model_draw(m) ==
    << Material_apply(m.material),
       BindVertexArray(m.id),
       DrawArrays("TRIANGLES", DrawFirst, DrawCount) >>

GLState == [vao |-> boundVAO, program |-> boundProgram, attrs |-> vaoAttrs]

\* The calls cs run on the GL context.
Issue(cs) ==
    LET st == GL_Run(GLState, cs) IN
    /\ boundVAO' = st.vao
    /\ boundProgram' = st.program
    /\ vaoAttrs' = st.attrs
    /\ glLog' = cs

Create ==
    /\ Len(models) < MaxModels
    /\ \E material \in DustMaterials :
          LET vao == nextVao
              st == GL_Run([GLState EXCEPT !.attrs = Append(vaoAttrs, {})],
                           Model_create(vao, material))
          IN /\ nextVao' = nextVao + 1
             /\ boundVAO' = st.vao
             /\ boundProgram' = st.program
             /\ vaoAttrs' = st.attrs
             /\ glLog' = Model_create(vao, material)
             /\ models' = Append(models, [id |-> vao, material |-> material])
             /\ lastOp' = [op |-> "create", model |-> Len(models) + 1, name |-> None]
    /\ UNCHANGED <<glueVars, loopVars, deferredVars>>

AddCustomAttribute ==
    /\ \E i \in 1..Len(models) :
       \E name \in CustomAttributes :
          /\ Issue(Model_add_custom_attribute(models[i], name))
          /\ lastOp' = [op |-> "add_custom_attribute", model |-> i, name |-> name]
    /\ UNCHANGED <<models, nextVao>>
    /\ UNCHANGED <<glueVars, loopVars, deferredVars>>

Draw ==
    /\ \E i \in 1..Len(models) :
          /\ Issue(Model_draw(models[i]))
          /\ lastOp' = [op |-> "draw", model |-> i, name |-> None]
    /\ UNCHANGED <<models, nextVao>>
    /\ UNCHANGED <<glueVars, loopVars, deferredVars>>

ModelNext ==
    \/ Create
    \/ AddCustomAttribute
    \/ Draw

-----------------------------------------------------------------------------
(* The frame loop: main.rs 70-101 *)

EventKinds == {"Quit", "KeyDownEscape", "KeyDownR", "Other"}
DrawOutcomes == {"Ok", "Err"}

\* for event in events.poll_iter() { match event { ... } }
HandleEvent ==
    /\ loopPc = "poll"
    /\ polled < MaxEvents
    /\ \E e \in EventKinds :
          /\ lastEvent' = e
          /\ IF e \in {"Quit", "KeyDownEscape"}
             THEN /\ loopPc' = "exited"           \* process::exit(1)
                  /\ exitCause' = e
             ELSE /\ loopPc' = "poll"
                  /\ exitCause' = exitCause
    /\ polled' = polled + 1
    /\ UNCHANGED frame
    /\ UNCHANGED <<glueVars, modelVars, deferredVars>>

\* poll_iter() has no more events
PollDone ==
    /\ loopPc = "poll"
    /\ loopPc' = "draw"
    /\ UNCHANGED <<frame, polled, lastEvent, exitCause>>
    /\ UNCHANGED <<glueVars, modelVars, deferredVars>>

\* camera.draw(&scene).unwrap()
DrawFrame ==
    /\ loopPc = "draw"
    /\ \E outcome \in DrawOutcomes :
          IF outcome = "Ok"
          THEN /\ loopPc' = "swap"
               /\ exitCause' = exitCause
          ELSE /\ loopPc' = "panicked"            \* unwrap() on Err
               /\ exitCause' = "DrawError"
    /\ UNCHANGED <<frame, polled, lastEvent>>
    /\ UNCHANGED <<glueVars, modelVars, deferredVars>>

\* window.gl_swap_window(); the closure returns and `loop` calls it again
SwapWindow ==
    /\ loopPc = "swap"
    /\ frame < MaxFrames
    /\ frame' = frame + 1
    /\ loopPc' = "poll"
    /\ polled' = 0
    /\ UNCHANGED <<lastEvent, exitCause>>
    /\ UNCHANGED <<glueVars, modelVars, deferredVars>>

LoopNext ==
    \/ HandleEvent
    \/ PollDone
    \/ DrawFrame
    \/ SwapWindow

-----------------------------------------------------------------------------
(* The deferred pipeline orchestrator (geometry pass, then lighting pass) *)

Viewport == "a1"

DeferredEntries ==
    [glue : [geometry : Geometries, material : Materials], synth : Materials]

\* The caller hands a collection of Objects to the pipeline.
BeginFrame ==
    /\ dPhase = "idle"
    /\ \E coll \in SeqsUpTo(DeferredEntries, MaxObjects) : dObjects' = coll
    /\ dPhase' = "geometry"
    /\ dNext' = 1
    /\ dPending' = 0
    /\ dCalled' = {}
    /\ dErrors' = <<>>
    /\ gbuffer' = {}
    /\ UNCHANGED <<glueVars, modelVars, loopVars>>

\* Geometry pass: render_deferred is called on the next Object.
GeometryPassCall ==
    /\ dPhase = "geometry"
    /\ dPending = 0
    /\ dNext <= Len(dObjects)
    /\ dPending' = dNext
    /\ dCalled' = dCalled \cup {dNext}
    /\ UNCHANGED <<dObjects, dPhase, dNext, dErrors, gbuffer>>
    /\ UNCHANGED <<glueVars, modelVars, loopVars>>

\* The call returns; an error is collected and the pass goes on.
GeometryPassReturn ==
    /\ dPhase = "geometry"
    /\ dPending # 0
    /\ LET o == dObjects[dPending]
           out == Glue_render_deferred(o.glue, o.synth, Viewport)
       IN IF out.value.ok
          THEN /\ gbuffer' = gbuffer \cup {dPending}
               /\ dErrors' = dErrors
          ELSE /\ gbuffer' = gbuffer
               /\ dErrors' = Append(dErrors, <<dPending, out.value.err>>)
    /\ dNext' = dNext + 1
    /\ dPending' = 0
    /\ UNCHANGED <<dObjects, dPhase, dCalled>>
    /\ UNCHANGED <<glueVars, modelVars, loopVars>>

LightingPass_NoBarrier ==
    /\ dPhase = "geometry"
    /\ dNext >= Len(dObjects)
    /\ dPhase' = "lighting"
    /\ UNCHANGED <<dObjects, dNext, dPending, dCalled, dErrors, gbuffer>>
    /\ UNCHANGED <<glueVars, modelVars, loopVars>>

\* Lighting pass: starts once the geometry pass is over.
LightingPass ==
    /\ dPhase = "geometry"
    /\ dPending = 0
    /\ dNext > Len(dObjects)
    /\ dPhase' = "lighting"
    /\ UNCHANGED <<dObjects, dNext, dPending, dCalled, dErrors, gbuffer>>
    /\ UNCHANGED <<glueVars, modelVars, loopVars>>

\* The frame is over.
EndFrame ==
    /\ dPhase = "lighting"
    /\ dPhase' = "idle"
    /\ UNCHANGED <<dObjects, dNext, dPending, dCalled, dErrors, gbuffer>>
    /\ UNCHANGED <<glueVars, modelVars, loopVars>>

DeferredNext ==
    \/ BeginFrame
    \/ GeometryPassCall
    \/ GeometryPassReturn
    \/ LightingPass
    \/ EndFrame

-----------------------------------------------------------------------------
(* Specifications: one per part of the program, the other parts at rest.    *)
(* Init is the state after construction: a Glue built from any geometry and *)
(* material, no Model created and nothing bound, the frame loop about to    *)
(* poll, the pipeline idle.                                                 *)

GlueInit ==
    \* Glue { geometry, material }
    /\ glue \in [geometry : Geometries, material : Materials]
    /\ transparent \in BOOLEAN
    /\ pc = "idle"
    /\ cur = NoArgs
    /\ orig = <<>>
    /\ recv = <<>>
    /\ steps = 0
    /\ geomCalls = <<>>
    /\ result = NoValue
    /\ lastDirect = NoCall
    /\ lastTransparent = NoValue
    /\ models = <<>>
    /\ nextVao = 1
    /\ boundVAO = 0
    /\ boundProgram = NoProgram
    /\ vaoAttrs = <<>>
    /\ glLog = <<>>
    /\ lastOp = [op |-> None, model |-> 0, name |-> None]
    /\ loopPc = "poll"
    /\ frame = 0
    /\ polled = 0
    /\ lastEvent = None
    /\ exitCause = None
    /\ dObjects = <<>>
    /\ dPhase = "idle"
    /\ dNext = 1
    /\ dPending = 0
    /\ dCalled = {}
    /\ dErrors = <<>>
    /\ gbuffer = {}

ModelInit ==
    /\ glue = [geometry |-> "triangle", material |-> "solid"]
    /\ transparent = FALSE
    /\ pc = "idle"
    /\ cur = NoArgs
    /\ orig = <<>>
    /\ recv = <<>>
    /\ steps = 0
    /\ geomCalls = <<>>
    /\ result = NoValue
    /\ lastDirect = NoCall
    /\ lastTransparent = NoValue
    /\ models = <<>>
    /\ nextVao = 1
    /\ boundVAO = 0
    /\ boundProgram = NoProgram
    /\ vaoAttrs = <<>>
    /\ glLog = <<>>
    /\ lastOp = [op |-> None, model |-> 0, name |-> None]
    /\ loopPc = "poll"
    /\ frame = 0
    /\ polled = 0
    /\ lastEvent = None
    /\ exitCause = None
    /\ dObjects = <<>>
    /\ dPhase = "idle"
    /\ dNext = 1
    /\ dPending = 0
    /\ dCalled = {}
    /\ dErrors = <<>>
    /\ gbuffer = {}

LoopInit ==
    /\ glue = [geometry |-> "triangle", material |-> "solid"]
    /\ transparent = FALSE
    /\ pc = "idle"
    /\ cur = NoArgs
    /\ orig = <<>>
    /\ recv = <<>>
    /\ steps = 0
    /\ geomCalls = <<>>
    /\ result = NoValue
    /\ lastDirect = NoCall
    /\ lastTransparent = NoValue
    /\ models = <<>>
    /\ nextVao = 1
    /\ boundVAO = 0
    /\ boundProgram = NoProgram
    /\ vaoAttrs = <<>>
    /\ glLog = <<>>
    /\ lastOp = [op |-> None, model |-> 0, name |-> None]
    /\ loopPc = "poll"
    /\ frame = 0
    /\ polled = 0
    /\ lastEvent = None
    /\ exitCause = None
    /\ dObjects = <<>>
    /\ dPhase = "idle"
    /\ dNext = 1
    /\ dPending = 0
    /\ dCalled = {}
    /\ dErrors = <<>>
    /\ gbuffer = {}

DeferredInit ==
    /\ glue = [geometry |-> "triangle", material |-> "solid"]
    /\ transparent = FALSE
    /\ pc = "idle"
    /\ cur = NoArgs
    /\ orig = <<>>
    /\ recv = <<>>
    /\ steps = 0
    /\ geomCalls = <<>>
    /\ result = NoValue
    /\ lastDirect = NoCall
    /\ lastTransparent = NoValue
    /\ models = <<>>
    /\ nextVao = 1
    /\ boundVAO = 0
    /\ boundProgram = NoProgram
    /\ vaoAttrs = <<>>
    /\ glLog = <<>>
    /\ lastOp = [op |-> None, model |-> 0, name |-> None]
    /\ loopPc = "poll"
    /\ frame = 0
    /\ polled = 0
    /\ lastEvent = None
    /\ exitCause = None
    /\ dObjects = <<>>
    /\ dPhase = "idle"
    /\ dNext = 1
    /\ dPending = 0
    /\ dCalled = {}
    /\ dErrors = <<>>
    /\ gbuffer = {}

SpecGlue == GlueInit /\ [][GlueNext]_vars
SpecModel == ModelInit /\ [][ModelNext]_vars
SpecLoop == LoopInit /\ [][LoopNext]_vars
SpecDeferred == DeferredInit /\ [][DeferredNext]_vars

-----------------------------------------------------------------------------
(* Properties *)

\* C1: Glue{geometry: G, material: M}.render(camera, lights) makes exactly one
\* call on the geometry, G.render_forward(M, camera, lights) with Glue's own
\* stored material and the caller's arguments, and returns that call's result
\* unchanged (Ok for Ok, the same error for an error).
C1_RenderDelegatesWithOwnMaterial ==
    (pc = "done" /\ orig = <<"Glue">> /\ cur.op = "render") =>
        /\ geomCalls = << [op |-> "render_forward", geometry |-> glue.geometry,
                           mat |-> glue.material, arg |-> cur.arg] >>
        /\ result = GeometryResult(geomCalls[1])

C1_Witness_RenderReturnsGeometryError ==
    /\ pc = "done"
    /\ orig = <<"Glue">>
    /\ cur.op = "render"
    /\ Len(geomCalls) = 1
    /\ result = Err("AttributeMismatch")

\* C2: Glue's Shadable operations render_forward(material, ..) and
\* render_deferred(material, ..) hand the supplied material to the geometry,
\* never Glue's own stored material, also when the two differ.
C2_ShadablePassesSuppliedMaterial ==
    (pc = "done" /\ orig = <<"Glue">> /\ cur.op \in ShadableOps) =>
        /\ Len(geomCalls) = 1
        /\ geomCalls[1].op = cur.op
        /\ geomCalls[1].geometry = glue.geometry
        /\ geomCalls[1].mat = cur.mat
        /\ geomCalls[1].arg = cur.arg

C2_Witness_SuppliedMaterialDiffers ==
    /\ pc = "done"
    /\ orig = <<"Glue">>
    /\ cur.op = "render_forward"
    /\ cur.mat # glue.material
    /\ Len(geomCalls) = 1
    /\ geomCalls[1].mat = cur.mat

\* C3: is_transparent() of a Glue, called on the value or through references,
\* returns material.is_transparent(), and returns what the previous
\* is_transparent call returned whatever render, render_forward,
\* render_deferred or aabb calls ran in between.
C3_IsTransparentStable ==
    (pc = "done" /\ cur.op = "is_transparent" /\ BaseOf(orig) = "Glue") =>
        /\ result = Bool(transparent)
        /\ lastTransparent \in {NoValue, result}

C3_Witness_SecondIsTransparentCall ==
    /\ pc = "done"
    /\ cur.op = "is_transparent"
    /\ BaseOf(orig) = "Glue"
    /\ lastTransparent # NoValue
    /\ lastDirect # NoCall
    /\ lastDirect.call.op = "render_deferred"
    /\ result = Bool(TRUE)

\* C4: an operation invoked through references reaches the implementation of
\* the underlying value after one forwarding step per reference (it never
\* re-enters the impl it is in), and makes the same calls on the geometry and
\* returns the same result as the same operation with the same arguments
\* invoked directly on the value.
C4_ReferenceForwardingEquivalent ==
    /\ steps + Len(recv) = Len(orig)
    /\ pc = "done" => recv = <<BaseOf(orig)>>
    /\ (/\ pc = "done"
        /\ Len(orig) > 1
        /\ lastDirect # NoCall
        /\ lastDirect.base = BaseOf(orig)
        /\ lastDirect.call = cur)
       => (geomCalls = lastDirect.calls /\ result = lastDirect.value)

C4_Witness_ForwardedThroughReferences ==
    /\ pc = "done"
    /\ Len(orig) = MaxDepth + 1
    /\ steps = MaxDepth
    /\ lastDirect # NoCall
    /\ lastDirect.base = BaseOf(orig)
    /\ lastDirect.call = cur
    /\ cur.op = "render_deferred"
    /\ result = Err("AttributeMismatch")

\* The Objects of the collection that fail in the geometry pass: the geometry
\* cannot supply what the synthetic material asks for.
FailingObjects ==
    {i \in 1..Len(dObjects) :
        ~GeometryResult([op |-> "render_deferred",
                         geometry |-> dObjects[i].glue.geometry,
                         mat |-> dObjects[i].synth, arg |-> Viewport]).ok}

ReturnedObjects == gbuffer \cup {dErrors[k][1] : k \in 1..Len(dErrors)}

\* C5: the lighting pass never runs while a render_deferred call of the
\* geometry pass is pending: when it begins, the call of every Object of the
\* collection has been made and has returned, with success or an error.
C5_GeometryPassBeforeLighting ==
    dPhase = "lighting" =>
        /\ dPending = 0
        /\ dCalled = 1..Len(dObjects)
        /\ ReturnedObjects = 1..Len(dObjects)

C5_Witness_LightingAfterFullPass ==
    /\ dPhase = "lighting"
    /\ Len(dObjects) = MaxObjects
    /\ dCalled = 1..MaxObjects

C7_LoopEndsOnlyOnQuitOrEscape ==
    loopPc \in {"exited", "panicked"} => exitCause \in {"Quit", "KeyDownEscape"}

\* C8: a draw call applies the material, then binds the model's vertex array,
\* then submits exactly one draw of 3 vertices; and every created model has
\* "Position" attached to its vertex array since Model::create, hence before
\* its first draw.
C8_DrawOrderAndSingleSubmission ==
    /\ \A i \in 1..Len(models) : "Position" \in vaoAttrs[models[i].id]
    /\ lastOp.op = "draw" =>
          /\ Len(glLog) = 3
          /\ glLog[1] = [call |-> "UseProgram",
                         program |-> ProgramOf(models[lastOp.model].material)]
          /\ glLog[2] = [call |-> "BindVertexArray", id |-> models[lastOp.model].id]
          /\ glLog[3] = [call |-> "DrawArrays", mode |-> "TRIANGLES",
                         first |-> 0, count |-> 3]

C8_Witness_DrawAfterCreate ==
    /\ lastOp.op = "draw"
    /\ Len(glLog) = 3
    /\ glLog[3].call = "DrawArrays"
    /\ "Position" \in vaoAttrs[models[lastOp.model].id]

\* C9: whenever a draw call returns, the bind state holds the program and the
\* vertex array of the model just drawn; draw restores nothing.
C9_BindStateLeftAtLastDrawn ==
    lastOp.op = "draw" =>
        /\ boundVAO = models[lastOp.model].id
        /\ boundProgram = ProgramOf(models[lastOp.model].material)

C9_Witness_DrawOfEarlierModel ==
    /\ lastOp.op = "draw"
    /\ Len(models) = MaxModels
    /\ lastOp.model = 1
    /\ boundVAO = models[1].id
    /\ models[1].material # models[MaxModels].material

\* C10: an attribute added through a model's add_custom_attribute is attached
\* to that model's own vertex array, whichever vertex array is bound.
C10_CustomAttributeOnOwnVertexArray ==
    lastOp.op = "add_custom_attribute" =>
        lastOp.name \in vaoAttrs[models[lastOp.model].id]

====
